---- MODULE Spec2Model ----
(***************************************************************************)
(* Group-expense splitting, settlement and broadcast of MySpendApp.        *)
(*                                                                         *)
(* The model follows server/routes.ts (and its session-aware twin with the *)
(* extra POST /api/groups/expenses route) running against the IStorage     *)
(* contract of server/storage.ts.  Every `await storage.x(...)` of a       *)
(* handler is one step of that request; steps of different requests        *)
(* interleave freely, as they do on the node event loop.                   *)
(*                                                                         *)
(* Money is held in whole cents.  The code keeps amounts as decimal        *)
(* strings with two fraction digits ("33.33"); Cents <-> string is a       *)
(* bijection, so the cent count stands for the string.  What is NOT a      *)
(* bijection - parseFloat, the double division and toFixed(2) - is         *)
(* modelled bit by bit below.                                              *)
(***************************************************************************)
EXTENDS Integers, Sequences, FiniteSets, Bags, TLC

(***************************************************************************)
(* Bounds of the model.                                                    *)
(***************************************************************************)
MaxUsers == 3
MaxCents == 2
MaxMemberRows == 3
MaxReqs == 3
MaxTime == 2
MaxExpenses == 1
MaxBodyLen == 2
MaxSplitCents == 100
MaxSockets == 2
MaxKeys == 5
MaxBroadcasts == 2
MaxGroups == 1
MaxCalls == 4
MaxRead == 2

(***************************************************************************)
(* Program constants.                                                      *)
(***************************************************************************)
\* IEEE-754 binary64 significand width: the `number` type of parseFloat
\* and of the `/` in routes.ts:67.
MantissaBits == 53
\* splitAmount.toFixed(2) and decimal(10, 2): cents per currency unit.
CentsPerUnit == 100
\* `userId: 1`: the logged-in user of the demo, payer of every expense.
CurrentUser == 1

Users == 1..MaxUsers
\* amounts in cents: the requests of Spec and SpecCustom, and the wider range
\* of SpecSplit
Amounts == 1..MaxCents
SplitAmounts == 1..MaxSplitCents
\* every amount string insertExpenseSchema lets through: zero and negative
\* amounts too
RequestAmounts == (0 - MaxCents)..MaxCents
\* groupId as sent by a client: 0 is "no group" (null / absent), 1 is the
\* group of the model.
NoGroup == 0
TheGroup == 1

(***************************************************************************)
(* binary64 arithmetic on bit sequences (most significant bit first).      *)
(* A positive double is [m |-> 53 bits, e |-> exponent of the last bit],   *)
(* that is the number BitsToInt(m) * 2^e.  Long division and               *)
(* multiplication go limb by limb (16 bits at a time), so that every       *)
(* intermediate value stays a small integer.                               *)
(***************************************************************************)
LimbBits == 2 * 8
LimbBase == 2 ^ LimbBits
GuardBits == MantissaBits + LimbBits

Zeros(n) == [i \in 1..n |-> 0]

PadFront(bits) ==
  Zeros((LimbBits - (Len(bits) % LimbBits)) % LimbBits) \o bits

RECURSIVE IntBits(_)
IntBits(k) == IF k = 0 THEN <<>> ELSE Append(IntBits(k \div 2), k % 2)

\* the number written by bits[lo..hi]
RECURSIVE BitsToInt(_, _, _)
BitsToInt(bits, lo, hi) ==
  IF hi < lo THEN 0 ELSE 2 * BitsToInt(bits, lo, hi - 1) + bits[hi]

LimbOf(bits, j) == BitsToInt(bits, (j - 1) * LimbBits + 1, j * LimbBits)

LimbBitsOf(v) == [i \in 1..LimbBits |-> (v \div (2 ^ (LimbBits - i))) % 2]

\* floor(bits / d) as bits, with the remainder; Len(bits) is a multiple of
\* LimbBits and 0 < d < 2^15.
RECURSIVE LimbDiv(_, _, _, _, _)
LimbDiv(bits, d, j, r, q) ==
  IF (j - 1) * LimbBits >= Len(bits)
  THEN [q |-> q, r |-> r]
  ELSE LET t == r * LimbBase + LimbOf(bits, j)
       IN  LimbDiv(bits, d, j + 1, t % d, q \o LimbBitsOf(t \div d))

\* bits * k + carry as bits; Len(bits) = j * LimbBits.
RECURSIVE LimbMul(_, _, _, _)
LimbMul(bits, k, j, carry) ==
  IF j = 0 THEN IntBits(carry)
  ELSE LET t == LimbOf(bits, j) * k + carry
       IN  LimbMul(bits, k, j - 1, t \div LimbBase) \o LimbBitsOf(t % LimbBase)

\* m + 1 on a 53-bit significand, renormalised when it carries out.
IncMantissa(m, e) ==
  IF \A i \in 1..Len(m) : m[i] = 1
  THEN [m |-> <<1>> \o Zeros(Len(m) - 1), e |-> e + 1]
  ELSE LET z == CHOOSE i \in 1..Len(m) :
                  m[i] = 0 /\ \A j \in (i + 1)..Len(m) : m[j] = 1
       IN  [m |-> [i \in 1..Len(m) |->
                     IF i < z THEN m[i] ELSE IF i = z THEN 1 ELSE 0],
            e |-> e]

\* bits / d rounded to the nearest double, ties to even (bits > 0).
RoundedQuotient(bits, d) ==
  LET res    == LimbDiv(PadFront(bits \o Zeros(GuardBits)), d, 1, 0, <<>>)
      q      == res.q
      p      == CHOOSE i \in 1..Len(q) :
                  q[i] = 1 /\ \A j \in 1..(i - 1) : q[j] = 0
      last   == p + MantissaBits - 1
      m      == SubSeq(q, p, last)
      sticky == res.r # 0 \/ \E j \in (last + 2)..Len(q) : q[j] = 1
      up     == q[last + 1] = 1 /\ (sticky \/ m[MantissaBits] = 1)
      e      == Len(q) - last - GuardBits
  IN  IF up THEN IncMantissa(m, e) ELSE [m |-> m, e |-> e]

\* parseFloat of the decimal string of `cents` cents ("0.03" for 3).
ParseFloat(cents) == RoundedQuotient(IntBits(cents), CentsPerUnit)

\* x / n in binary64, n a positive integer (an array length).
DivDouble(x, n) ==
  LET q == RoundedQuotient(x.m, n) IN [m |-> q.m, e |-> q.e + x.e]

\* x.toFixed(2), returned as the cent count of the resulting string: the
\* integer n for which n / 100 - x is closest to zero, the larger n on a
\* tie, computed on the exact value of the double.
ToFixed2(x) ==
  LET xm   == PadFront(x.m)
      y    == LimbMul(xm, CentsPerUnit, Len(xm) \div LimbBits, 0)
      s    == 0 - x.e
      ip   == Len(y) - s
      int  == IF ip <= 0 THEN 0 ELSE BitsToInt(y, 1, ip)
      half == IF ip + 1 >= 1 /\ ip + 1 <= Len(y) THEN y[ip + 1] ELSE 0
  IN  int + half

\* (parseFloat(expense.amount) / groupMembers.length).toFixed(2), tabulated
\* once for every amount and every list length the model can produce
SplitTable ==
  [cents \in Amounts \cup SplitAmounts, n \in 1..MaxMemberRows |->
     ToFixed2(DivDouble(ParseFloat(cents), n))]

\* parseFloat, `/` and toFixed all carry the sign through: "-0.03" splits
\* as "0.03" does, with a minus sign; "0.00" splits into "0.00"
SplitAmount(cents, n) ==
  IF cents = 0 THEN 0
  ELSE IF cents < 0 THEN 0 - SplitTable[0 - cents, n]
  ELSE SplitTable[cents, n]

(***************************************************************************)
(* State.                                                                  *)
(*   groupMembers        group_members rows, row id = position             *)
(*   expenses            expenses rows, id = position                      *)
(*   groupExpenseSplits  group_expense_splits rows, id = position          *)
(*   now                 the clock read by `new Date()`                    *)
(*   broadcasts          the bag of messages handed to broadcastToClients  *)
(*   reqs                the HTTP requests received so far, each with the  *)
(*                       position of its handler and the handler's locals  *)
(*                       (dropped when the handler returns)                *)
(*   notifications       notifications rows, id = position                 *)
(*   groups              ids of the groups rows                            *)
(*   idCounter, objectIdToNumber, numberToObjectId                         *)
(*                       the module-level id mapping of the Mongo storage  *)
(*   returned            what the calls of toNumericId returned, in order  *)
(*   clients             the Set<WebSocket> of the server                  *)
(*   readyState          readyState of every socket ("NONE": the socket    *)
(*                       has not connected yet)                            *)
(*   sent                the frames handed to client.send, per socket      *)
(***************************************************************************)
VARIABLES groupMembers, expenses, groupExpenseSplits, now, broadcasts, reqs,
          notifications, groups,
          idCounter, objectIdToNumber, numberToObjectId, returned,
          clients, readyState, sent

idVars == <<idCounter, objectIdToNumber, numberToObjectId, returned>>

socketVars == <<clients, readyState>>

vars == <<groupMembers, expenses, groupExpenseSplits, now, broadcasts, reqs,
          notifications, groups, idVars, socketVars, sent>>

\* `undefined` returned by settleGroupExpenseSplit, and a null settledAt.
NoSplit == [id |-> 0]
Null == 0

\* the sockets that may connect, and the ObjectIds the database may hand out
Sockets == 1..MaxSockets
ObjectIds == [hex : 1..MaxKeys]

\* a Map without entries
EmptyMap == [k \in {} |-> 0]

Init ==
  /\ groupMembers = <<>>
  /\ expenses = <<>>
  /\ groupExpenseSplits = <<>>
  /\ now = 1
  /\ broadcasts = EmptyBag
  /\ reqs = <<>>
  /\ notifications = <<>>
  /\ groups = {}
  /\ idCounter = 1
  /\ objectIdToNumber = EmptyMap
  /\ numberToObjectId = EmptyMap
  /\ returned = <<>>
  /\ clients = {}
  /\ readyState = [ws \in Sockets |-> "NONE"]
  /\ sent = [ws \in Sockets |-> <<>>]

(***************************************************************************)
(* IStorage, as implemented by one statement each in DatabaseStorage and   *)
(* by one map operation each in MemStorage.                                *)
(***************************************************************************)
\* SelectSeq keeps the rows in insertion order, as Map iteration does.
GetGroupMembers(groupId) ==
  LET InGroup(m) == m.groupId = groupId IN SelectSeq(groupMembers, InGroup)

IsGroupMember(groupId, userId) ==
  \E k \in 1..Len(groupMembers) :
    groupMembers[k].groupId = groupId /\ groupMembers[k].userId = userId

GetExpense(id) == id \in 1..Len(expenses)

\* ids of the split rows of one expense
GetGroupExpenseSplits(expenseId) ==
  {k \in 1..Len(groupExpenseSplits) :
     groupExpenseSplits[k].expenseId = expenseId}

CreateExpense(amount, userId, groupId) ==
  Append(expenses, [amount |-> amount, userId |-> userId, groupId |-> groupId])

\* an insert that stamps settledAt with the clock on an unsettled split
CreateGroupExpenseSplitStamped(expenseId, userId, amount) ==
  Append(groupExpenseSplits,
         [expenseId |-> expenseId, userId |-> userId, amount |-> amount,
          settled |-> FALSE, settledAt |-> now])

CreateGroupExpenseSplit(expenseId, userId, amount) ==
  Append(groupExpenseSplits,
         [expenseId |-> expenseId, userId |-> userId, amount |-> amount,
          settled |-> FALSE, settledAt |-> Null])

\* a settle that flips the flag instead of setting it
SettledSplitToggle(split, date) ==
  [split EXCEPT !.settled = ~split.settled, !.settledAt = date]

\* the row written by settleGroupExpenseSplit for an existing split
SettledSplit(split, date) ==
  [split EXCEPT !.settled = TRUE, !.settledAt = date]

\* a settle that marks every split of the same expense
SettleGroupExpenseSplitOfExpense(id, date) ==
  IF id \in 1..Len(groupExpenseSplits)
  THEN [k \in 1..Len(groupExpenseSplits) |->
          IF groupExpenseSplits[k].expenseId = groupExpenseSplits[id].expenseId
          THEN SettledSplit(groupExpenseSplits[k], date)
          ELSE groupExpenseSplits[k]]
  ELSE groupExpenseSplits

SettleGroupExpenseSplit(id, date) ==
  IF id \in 1..Len(groupExpenseSplits)
  THEN [groupExpenseSplits EXCEPT
          ![id] = SettledSplit(groupExpenseSplits[id], date)]
  ELSE groupExpenseSplits

\* broadcastToClients(message): the message joins the messages sent so far
BroadcastToClients(message) == broadcasts (+) SetToBag({message})

\* the forEach of broadcastToClients: one send to every client of the set
\* whose readyState is OPEN
Deliver(message) ==
  [ws \in Sockets |->
     IF ws \in clients /\ readyState[ws] = "OPEN"
     THEN Append(sent[ws], message) ELSE sent[ws]]

(***************************************************************************)
(* Group membership.                                                       *)
(***************************************************************************)
\* POST /api/groups/:id/members (also the "add creator as member" call of
\* POST /api/groups): one insert, no uniqueness check.
AddGroupMember(groupId, userId) ==
  /\ Len(groupMembers) < MaxMemberRows
  /\ groupMembers' = Append(groupMembers, [groupId |-> groupId, userId |-> userId])
  /\ UNCHANGED <<expenses, groupExpenseSplits, now, broadcasts, reqs, sent>>
  /\ UNCHANGED <<notifications, groups, idVars, socketVars>>

(***************************************************************************)
(* POST /api/groups                                                        *)
(***************************************************************************)
\* the request arrives, its body parses, storage.createGroup runs: the new
\* group takes the next id
PostGroup ==
  /\ Len(reqs) < MaxReqs
  /\ Cardinality(groups) < MaxGroups
  /\ groups' = groups \cup {Cardinality(groups) + 1}
  /\ reqs' = Append(reqs, [kind |-> "group", pc |-> "created",
                           groupId |-> Cardinality(groups) + 1,
                           status |-> 0])
  /\ UNCHANGED <<groupMembers, expenses, groupExpenseSplits, now, broadcasts,
                 notifications, idVars, socketVars, sent>>

\* "Add creator as member": storage.addGroupMember runs, then 201
GroupAddCreator(r) ==
  /\ reqs[r].kind = "group" /\ reqs[r].pc = "created"
  /\ Len(groupMembers) < MaxMemberRows
  /\ groupMembers' = Append(groupMembers, [groupId |-> reqs[r].groupId,
                                           userId |-> CurrentUser])
  /\ reqs' = [reqs EXCEPT ![r].pc = "done", ![r].status = 201]
  /\ UNCHANGED <<expenses, groupExpenseSplits, now, broadcasts,
                 notifications, groups, idVars, socketVars, sent>>

(***************************************************************************)
(* POST /api/expenses                                                      *)
(***************************************************************************)
\* first index >= i of a member other than the payer; Len + 1 if none
NextOwing(members, i, payer) ==
  LET left == {j \in i..Len(members) : members[j].userId # payer}
  IN  IF left = {} THEN Len(members) + 1
      ELSE CHOOSE j \in left : \A k \in left : j <= k

\* the request arrives, its body parses, storage.createExpense runs
PostExpense(userId, amount, groupId) ==
  /\ Len(reqs) < MaxReqs
  /\ Len(expenses) < MaxExpenses
  /\ expenses' = CreateExpense(amount, userId, groupId)
  /\ reqs' = Append(reqs, [kind |-> "expense", pc |-> "inserted",
                           expenseId |-> Len(expenses) + 1,
                           members |-> <<>>, i |-> 0, status |-> 0])
  /\ UNCHANGED <<groupMembers, groupExpenseSplits, now, broadcasts, sent>>
  /\ UNCHANGED <<notifications, groups, idVars, socketVars>>

\* the request arrives and insertExpenseSchema.parse throws a ZodError (the
\* amount is missing or is not a string): the catch block answers 400
PostExpenseUnparsed ==
  /\ Len(reqs) < MaxReqs
  /\ reqs' = Append(reqs, [kind |-> "expense", pc |-> "done",
                           expenseId |-> 0,
                           members |-> <<>>, i |-> 0, status |-> 400])
  /\ UNCHANGED <<groupMembers, expenses, groupExpenseSplits, now, broadcasts, sent>>
  /\ UNCHANGED <<notifications, groups, idVars, socketVars>>

\* a handler without the `if (expense.groupId)` test: the members are read
\* and the split loop runs for a personal expense too
ExpenseGetMembersAlways(r) ==
  /\ reqs[r].kind = "expense" /\ reqs[r].pc = "inserted"
  /\ LET expense == expenses[reqs[r].expenseId]
     IN  reqs' = [reqs EXCEPT ![r].pc = "splitting", ![r].i = 1,
                              ![r].members = GetGroupMembers(expense.groupId)]
  /\ UNCHANGED <<groupMembers, expenses, groupExpenseSplits, now, broadcasts, sent>>
  /\ UNCHANGED <<notifications, groups, idVars, socketVars>>

\* `if (expense.groupId)`: a personal expense is answered at once, for a
\* group expense storage.getGroupMembers runs
ExpenseGetMembers(r) ==
  /\ reqs[r].kind = "expense" /\ reqs[r].pc = "inserted"
  /\ LET expense == expenses[reqs[r].expenseId]
     IN  IF expense.groupId = NoGroup
         THEN reqs' = [reqs EXCEPT ![r].pc = "done", ![r].status = 201]
         ELSE reqs' = [reqs EXCEPT ![r].pc = "splitting", ![r].i = 1,
                                   ![r].members = GetGroupMembers(expense.groupId)]
  /\ UNCHANGED <<groupMembers, expenses, groupExpenseSplits, now, broadcasts, sent>>
  /\ UNCHANGED <<notifications, groups, idVars, socketVars>>

\* a loop that reads the members again before every split
ExpenseCreateSplitRereading(r) ==
  /\ reqs[r].kind = "expense" /\ reqs[r].pc = "splitting"
  /\ LET expense == expenses[reqs[r].expenseId]
         members == GetGroupMembers(expense.groupId)
         j       == NextOwing(members, reqs[r].i, expense.userId)
     IN  /\ j <= Len(members)
         /\ groupExpenseSplits' =
              CreateGroupExpenseSplit(reqs[r].expenseId, members[j].userId,
                                      SplitAmount(expense.amount, Len(members)))
         /\ reqs' = [reqs EXCEPT ![r].i = j + 1]
  /\ UNCHANGED <<groupMembers, expenses, now, broadcasts, sent>>
  /\ UNCHANGED <<notifications, groups, idVars, socketVars>>

\* the loop runs on to the next member that is not the payer and
\* storage.createGroupExpenseSplit runs for that member
ExpenseCreateSplit(r) ==
  /\ reqs[r].kind = "expense" /\ reqs[r].pc = "splitting"
  /\ LET expense == expenses[reqs[r].expenseId]
         members == reqs[r].members
         j       == NextOwing(members, reqs[r].i, expense.userId)
     IN  /\ j <= Len(members)
         /\ groupExpenseSplits' =
              CreateGroupExpenseSplit(reqs[r].expenseId, members[j].userId,
                                      SplitAmount(expense.amount, Len(members)))
         /\ reqs' = [reqs EXCEPT ![r].i = j + 1]
  /\ UNCHANGED <<groupMembers, expenses, now, broadcasts, sent>>
  /\ UNCHANGED <<notifications, groups, idVars, socketVars>>

\* a catch block that broadcasts expense_added before it answers 500
ExpenseSplitFailsBroadcasting(r) ==
  /\ reqs[r].kind = "expense" /\ reqs[r].pc = "splitting"
  /\ NextOwing(reqs[r].members, reqs[r].i,
               expenses[reqs[r].expenseId].userId) <= Len(reqs[r].members)
  /\ broadcasts' = BroadcastToClients([type |-> "expense_added",
                                      id |-> reqs[r].expenseId])
  /\ sent' = Deliver([type |-> "expense_added", id |-> reqs[r].expenseId])
  /\ reqs' = [reqs EXCEPT ![r].pc = "done", ![r].status = 500,
                          ![r].members = <<>>, ![r].i = 0]
  /\ UNCHANGED <<groupMembers, expenses, groupExpenseSplits, now>>
  /\ UNCHANGED <<notifications, groups, idVars, socketVars>>

\* storage.createGroupExpenseSplit rejects: the catch block answers 500
ExpenseSplitFails(r) ==
  /\ reqs[r].kind = "expense" /\ reqs[r].pc = "splitting"
  /\ NextOwing(reqs[r].members, reqs[r].i,
               expenses[reqs[r].expenseId].userId) <= Len(reqs[r].members)
  /\ reqs' = [reqs EXCEPT ![r].pc = "done", ![r].status = 500,
                          ![r].members = <<>>, ![r].i = 0]
  /\ UNCHANGED <<groupMembers, expenses, groupExpenseSplits, now, broadcasts, sent>>
  /\ UNCHANGED <<notifications, groups, idVars, socketVars>>

\* the loop is over: broadcast expense_added and answer 201
ExpenseFinish(r) ==
  /\ reqs[r].kind = "expense" /\ reqs[r].pc = "splitting"
  /\ NextOwing(reqs[r].members, reqs[r].i,
               expenses[reqs[r].expenseId].userId) > Len(reqs[r].members)
  /\ broadcasts' = BroadcastToClients([type |-> "expense_added",
                                      id |-> reqs[r].expenseId])
  /\ sent' = Deliver([type |-> "expense_added", id |-> reqs[r].expenseId])
  /\ reqs' = [reqs EXCEPT ![r].pc = "done", ![r].status = 201,
                          ![r].members = <<>>, ![r].i = 0]
  /\ UNCHANGED <<groupMembers, expenses, groupExpenseSplits, now>>
  /\ UNCHANGED <<notifications, groups, idVars, socketVars>>

(***************************************************************************)
(* POST /api/groups/expenses                                               *)
(* req.body.splits is private to the request, so each entry is drawn when  *)
(* the loop first reads it; `body` keeps the entries read so far.          *)
(***************************************************************************)
\* the request arrives and storage.isGroupMember runs; `iterable` tells
\* whether the body carries a `splits` array at all
PostGroupExpense(userId, amount, groupId, iterable) ==
  /\ Len(reqs) < MaxReqs
  /\ Cardinality({r \in 1..Len(reqs) : reqs[r].status # 403}) < MaxExpenses
  /\ reqs' = Append(reqs,
       IF IsGroupMember(groupId, userId)
       THEN [kind |-> "groupExpense", pc |-> "member", userId |-> userId,
             amount |-> amount, groupId |-> groupId, iterable |-> iterable,
             expenseId |-> 0, body |-> <<>>, status |-> 0]
       ELSE [kind |-> "groupExpense", pc |-> "done", userId |-> userId,
             amount |-> amount, groupId |-> groupId, iterable |-> iterable,
             expenseId |-> 0, body |-> <<>>, status |-> 403])
  /\ UNCHANGED <<groupMembers, expenses, groupExpenseSplits, now, broadcasts, sent>>
  /\ UNCHANGED <<notifications, groups, idVars, socketVars>>

\* storage.createExpense runs
GroupExpenseCreate(r) ==
  /\ reqs[r].kind = "groupExpense" /\ reqs[r].pc = "member"
  /\ expenses' = CreateExpense(reqs[r].amount, reqs[r].userId, reqs[r].groupId)
  /\ reqs' = [reqs EXCEPT ![r].pc = "splitting",
                          ![r].expenseId = Len(expenses) + 1]
  /\ UNCHANGED <<groupMembers, groupExpenseSplits, now, broadcasts, sent>>
  /\ UNCHANGED <<notifications, groups, idVars, socketVars>>

\* `for (const split of splits)` on a body without a splits array throws
\* a TypeError: the catch block answers 500
GroupExpenseNoSplits(r) ==
  /\ reqs[r].kind = "groupExpense" /\ reqs[r].pc = "splitting"
  /\ ~reqs[r].iterable
  /\ reqs' = [reqs EXCEPT ![r].pc = "done", ![r].status = 500]
  /\ UNCHANGED <<groupMembers, expenses, groupExpenseSplits, now, broadcasts, sent>>
  /\ UNCHANGED <<notifications, groups, idVars, socketVars>>

\* the loop reads the next entry {userId, amount} and
\* storage.createGroupExpenseSplit runs for it
GroupExpenseCreateSplit(r, userId, amount) ==
  /\ reqs[r].kind = "groupExpense" /\ reqs[r].pc = "splitting"
  /\ reqs[r].iterable
  /\ Len(reqs[r].body) < MaxBodyLen
  /\ groupExpenseSplits' =
       CreateGroupExpenseSplit(reqs[r].expenseId, userId, amount)
  /\ reqs' = [reqs EXCEPT ![r].body =
                Append(@, [userId |-> userId, amount |-> amount])]
  /\ UNCHANGED <<groupMembers, expenses, now, broadcasts, sent>>
  /\ UNCHANGED <<notifications, groups, idVars, socketVars>>

\* the splits array is exhausted: broadcast and answer 201
GroupExpenseFinish(r) ==
  /\ reqs[r].kind = "groupExpense" /\ reqs[r].pc = "splitting"
  /\ reqs[r].iterable
  /\ broadcasts' = BroadcastToClients([type |-> "group_expense_added",
                                      id |-> reqs[r].expenseId])
  /\ sent' = Deliver([type |-> "group_expense_added",
                      id |-> reqs[r].expenseId])
  /\ reqs' = [reqs EXCEPT ![r].pc = "done", ![r].status = 201]
  /\ UNCHANGED <<groupMembers, expenses, groupExpenseSplits, now>>
  /\ UNCHANGED <<notifications, groups, idVars, socketVars>>

(***************************************************************************)
(* PATCH /api/splits/:id/settle                                            *)
(***************************************************************************)
\* the request arrives and storage.settleGroupExpenseSplit runs; `date` is
\* what `new Date()` reads, never earlier than the last reading
PatchSettle(id, date) ==
  /\ Len(reqs) < MaxReqs
  /\ date >= now
  /\ now' = date
  /\ groupExpenseSplits' = SettleGroupExpenseSplit(id, date)
  /\ reqs' = Append(reqs,
       [kind |-> "settle", pc |-> "stored", splitId |-> id,
        split |-> IF id \in 1..Len(groupExpenseSplits)
                  THEN [id |-> id, settledAt |-> date]
                  ELSE NoSplit,
        status |-> 0])
  /\ UNCHANGED <<groupMembers, expenses, broadcasts, sent>>
  /\ UNCHANGED <<notifications, groups, idVars, socketVars>>

\* the request arrives and storage.settleGroupExpenseSplit rejects (the
\* database is unreachable).  The handler has no try/catch: the promise of
\* the async handler rejects, and whether anything answers then is up to
\* the express version the server is built with - express 4 drops the
\* rejection and the request stays open, express 5 answers 500.
PatchSettleFails(id, caught) ==
  /\ Len(reqs) < MaxReqs
  /\ reqs' = Append(reqs,
       [kind |-> "settle", pc |-> IF caught THEN "done" ELSE "rejected",
        splitId |-> id, split |-> NoSplit,
        status |-> IF caught THEN 500 ELSE 0])
  /\ UNCHANGED <<groupMembers, expenses, groupExpenseSplits, now, broadcasts, sent>>
  /\ UNCHANGED <<notifications, groups, idVars, socketVars>>

\* a handler without the `if (!split)` test: it broadcasts and answers 200
\* whatever the storage returned
SettleRespondAlways(r) ==
  /\ reqs[r].kind = "settle" /\ reqs[r].pc = "stored"
  /\ broadcasts' = BroadcastToClients([type |-> "payment_settled",
                                      id |-> reqs[r].split.id])
  /\ sent' = Deliver([type |-> "payment_settled", id |-> reqs[r].split.id])
  /\ reqs' = [reqs EXCEPT ![r].pc = "done", ![r].status = 200]
  /\ UNCHANGED <<groupMembers, expenses, groupExpenseSplits, now>>
  /\ UNCHANGED <<notifications, groups, idVars, socketVars>>

\* `if (!split)` answers 404; otherwise broadcast payment_settled and
\* answer with the split
SettleRespond(r) ==
  /\ reqs[r].kind = "settle" /\ reqs[r].pc = "stored"
  /\ IF reqs[r].split = NoSplit
     THEN /\ reqs' = [reqs EXCEPT ![r].pc = "done", ![r].status = 404]
          /\ UNCHANGED <<broadcasts, sent>>
     ELSE /\ broadcasts' = BroadcastToClients([type |-> "payment_settled",
                                              id |-> reqs[r].split.id])
          /\ sent' = Deliver([type |-> "payment_settled",
                              id |-> reqs[r].split.id])
          /\ reqs' = [reqs EXCEPT ![r].pc = "done", ![r].status = 200]
  /\ UNCHANGED <<groupMembers, expenses, groupExpenseSplits, now>>
  /\ UNCHANGED <<notifications, groups, idVars, socketVars>>

(***************************************************************************)
(* A read of one expense: what getExpense and getGroupExpenseSplits        *)
(* return on the rows stored at this instant.                              *)
(***************************************************************************)
ReadExpense(expenseId) ==
  /\ Len(reqs) < MaxReqs
  /\ reqs' = Append(reqs,
       [kind |-> "read", pc |-> "done", expenseId |-> expenseId,
        found |-> GetExpense(expenseId),
        rows |-> GetGroupExpenseSplits(expenseId), status |-> 200])
  /\ UNCHANGED <<groupMembers, expenses, groupExpenseSplits, now, broadcasts, sent>>
  /\ UNCHANGED <<notifications, groups, idVars, socketVars>>

(***************************************************************************)
(* The id mapping of the Mongo storages (toNumericId / toObjectId, and     *)
(* getNumericId / getObjectId in simple-mongo-storage.ts).  Both functions *)
(* are synchronous, so a call is one step whichever request makes it.      *)
(***************************************************************************)
\* objectId.toString(): the hex string of the id
HexString(objectId) == objectId.hex

\* `null` returned by toObjectId
NullObjectId == [hex |-> 0]

\* Map.set(key, value)
MapSet(map, key, value) == (key :> value) @@ map

\* a toNumericId that reads idCounter without advancing it
ToNumericIdReusing(objectId) ==
  /\ Len(returned) < MaxCalls
  /\ LET key == HexString(objectId)
     IN  /\ IF key \notin DOMAIN objectIdToNumber
            THEN /\ idCounter' = idCounter
                 /\ objectIdToNumber' = MapSet(objectIdToNumber, key, idCounter)
                 /\ numberToObjectId' =
                      MapSet(numberToObjectId, idCounter, objectId)
            ELSE UNCHANGED <<idCounter, objectIdToNumber, numberToObjectId>>
         /\ returned' = Append(returned, [key |-> key,
                                          id |-> objectIdToNumber'[key]])
  /\ UNCHANGED <<groupMembers, expenses, groupExpenseSplits, now, broadcasts,
                 reqs, notifications, groups, socketVars, sent>>

\* toNumericId(objectId): an unseen key gets idCounter++ in both maps
ToNumericId(objectId) ==
  /\ Len(returned) < MaxCalls
  /\ LET key == HexString(objectId)
     IN  /\ IF key \notin DOMAIN objectIdToNumber
            THEN /\ idCounter' = idCounter + 1
                 /\ objectIdToNumber' = MapSet(objectIdToNumber, key, idCounter)
                 /\ numberToObjectId' =
                      MapSet(numberToObjectId, idCounter, objectId)
            ELSE UNCHANGED <<idCounter, objectIdToNumber, numberToObjectId>>
         /\ returned' = Append(returned, [key |-> key,
                                          id |-> objectIdToNumber'[key]])
  /\ UNCHANGED <<groupMembers, expenses, groupExpenseSplits, now, broadcasts,
                 reqs, notifications, groups, socketVars, sent>>

\* what toNumericId returns: objectIdToNumber.get(key)
NumericIdOf(objectId) == objectIdToNumber[HexString(objectId)]

\* toObjectId(numId): numberToObjectId.get(numId) || null
ToObjectId(numId) ==
  IF numId \in DOMAIN numberToObjectId
  THEN numberToObjectId[numId] ELSE NullObjectId

(***************************************************************************)
(* The storage operations of mongo-compatible-storage.ts.  Documents refer *)
(* to each other by ObjectId; every numeric id a caller hands in goes      *)
(* through toObjectId first.  The document an operation returns is         *)
(* converted after a further await, by calls of toNumericId: these are     *)
(* ToNumericId steps of their own.  Every call is logged in `reqs` with    *)
(* what it returned.                                                       *)
(***************************************************************************)
\* the _id insertOne gives the next document
FreshObjectId ==
  [hex |-> MaxKeys + Len(expenses) + Len(groupExpenseSplits) + 1]

\* the ObjectIds of the documents of the database
DocumentIds ==
  ObjectIds \cup {expenses[e]._id : e \in 1..Len(expenses)}
            \cup {groupExpenseSplits[k]._id : k \in 1..Len(groupExpenseSplits)}

\* the numeric ids a caller may hand in: those given out so far and one
\* that was never given out
NumericIds == 1..idCounter

\* a storage call and its outcome, as the caller sees it
StorageCall(op, ids, result) ==
  [kind |-> "storage", op |-> op, pc |-> "done", status |-> 0,
   unknown |-> \E n \in ids : ToObjectId(n) = NullObjectId,
   result |-> result]

\* createExpense: "Invalid IDs" unless the payer and the category resolve;
\* a group id that does not resolve is stored as null
MongoCreateExpense(amount, userId, categoryId, groupId) ==
  /\ Len(reqs) < MaxReqs
  /\ Len(expenses) < MaxExpenses
  /\ IF ToObjectId(userId) = NullObjectId
        \/ ToObjectId(categoryId) = NullObjectId
     THEN /\ reqs' = Append(reqs, StorageCall("createExpense",
                                   {userId, categoryId, groupId} \ {NoGroup},
                                   "Invalid IDs"))
          /\ UNCHANGED expenses
     ELSE /\ expenses' = Append(expenses,
               [_id |-> FreshObjectId, amount |-> amount,
                userId |-> ToObjectId(userId),
                categoryId |-> ToObjectId(categoryId),
                groupId |-> IF groupId # NoGroup THEN ToObjectId(groupId)
                            ELSE NullObjectId])
          /\ reqs' = Append(reqs, StorageCall("createExpense",
                                   {userId, categoryId, groupId} \ {NoGroup},
                                   "document"))
  /\ UNCHANGED <<groupMembers, groupExpenseSplits, now, broadcasts, sent>>
  /\ UNCHANGED <<notifications, groups, idVars, socketVars>>

\* getGroupExpenseSplits: [] when the expense id does not resolve
MongoGetGroupExpenseSplits(expenseId) ==
  /\ Len(reqs) < MaxReqs
  /\ reqs' = Append(reqs, StorageCall("getGroupExpenseSplits", {expenseId},
       IF ToObjectId(expenseId) = NullObjectId
          \/ \A k \in 1..Len(groupExpenseSplits) :
               groupExpenseSplits[k].expenseId # ToObjectId(expenseId)
       THEN "empty" ELSE "documents"))
  /\ UNCHANGED <<groupMembers, expenses, groupExpenseSplits, now, broadcasts, sent>>
  /\ UNCHANGED <<notifications, groups, idVars, socketVars>>

\* createGroupExpenseSplit: "Invalid IDs" unless both ids resolve; the
\* document is inserted with settled: false and no settledAt
MongoCreateGroupExpenseSplit(expenseId, userId, amount) ==
  /\ Len(reqs) < MaxReqs
  /\ IF ToObjectId(expenseId) = NullObjectId
        \/ ToObjectId(userId) = NullObjectId
     THEN /\ reqs' = Append(reqs, StorageCall("createGroupExpenseSplit",
                                   {expenseId, userId}, "Invalid IDs"))
          /\ UNCHANGED groupExpenseSplits
     ELSE /\ groupExpenseSplits' = Append(groupExpenseSplits,
               [_id |-> FreshObjectId, expenseId |-> ToObjectId(expenseId),
                userId |-> ToObjectId(userId), amount |-> amount,
                settled |-> FALSE, settledAt |-> Null])
          /\ reqs' = Append(reqs, StorageCall("createGroupExpenseSplit",
                                   {expenseId, userId}, "document"))
  /\ UNCHANGED <<groupMembers, expenses, now, broadcasts, sent>>
  /\ UNCHANGED <<notifications, groups, idVars, socketVars>>

\* settleGroupExpenseSplit: undefined when the id does not resolve or no
\* split has the _id; otherwise updateOne sets settled and settledAt
MongoSettleGroupExpenseSplit(id, date) ==
  /\ Len(reqs) < MaxReqs
  /\ date >= now
  /\ now' = date
  /\ LET hit == {k \in 1..Len(groupExpenseSplits) :
                   groupExpenseSplits[k]._id = ToObjectId(id)}
     IN  /\ groupExpenseSplits' =
              [k \in 1..Len(groupExpenseSplits) |->
                 IF k \in hit THEN SettledSplit(groupExpenseSplits[k], date)
                 ELSE groupExpenseSplits[k]]
         /\ reqs' = Append(reqs, StorageCall("settleGroupExpenseSplit", {id},
                        IF hit = {} THEN "undefined" ELSE "document"))
  /\ UNCHANGED <<groupMembers, expenses, broadcasts, sent>>
  /\ UNCHANGED <<notifications, groups, idVars, socketVars>>

(***************************************************************************)
(* The WebSocket listeners of /ws.  The ws library opens the socket and    *)
(* emits 'connection' in one tick, and sets readyState to CLOSED in the    *)
(* tick that emits 'close'; in between a socket may be CLOSING.            *)
(***************************************************************************)
\* the messages the routes of routes.ts broadcast
Events == {[type |-> t, id |-> 1] : t \in {"expense_added", "payment_settled"}}

\* wss.on('connection'): clients.add(ws)
Connect(ws) ==
  /\ readyState[ws] = "NONE"
  /\ readyState' = [readyState EXCEPT ![ws] = "OPEN"]
  /\ clients' = clients \cup {ws}
  /\ UNCHANGED <<groupMembers, expenses, groupExpenseSplits, now, broadcasts,
                 reqs, notifications, groups, idVars, sent>>

\* the closing handshake starts or the connection is lost: the socket is
\* no longer OPEN, its 'close' event is still to come
StartClosing(ws) ==
  /\ readyState[ws] = "OPEN"
  /\ readyState' = [readyState EXCEPT ![ws] = "CLOSING"]
  /\ UNCHANGED <<groupMembers, expenses, groupExpenseSplits, now, broadcasts,
                 reqs, notifications, groups, idVars, clients, sent>>

\* a 'close' handler that leaves the socket in the set
CloseEventKeeping(ws) ==
  /\ readyState[ws] = "CLOSING"
  /\ readyState' = [readyState EXCEPT ![ws] = "CLOSED"]
  /\ UNCHANGED <<groupMembers, expenses, groupExpenseSplits, now, broadcasts,
                 reqs, notifications, groups, idVars, clients, sent>>

\* ws.on('close'): clients.delete(ws)
CloseEvent(ws) ==
  /\ readyState[ws] = "CLOSING"
  /\ readyState' = [readyState EXCEPT ![ws] = "CLOSED"]
  /\ clients' = clients \ {ws}
  /\ UNCHANGED <<groupMembers, expenses, groupExpenseSplits, now, broadcasts,
                 reqs, notifications, groups, idVars, sent>>

\* some route calls broadcastToClients(message)
Broadcast(message) ==
  /\ BagCardinality(broadcasts) < MaxBroadcasts
  /\ broadcasts' = BroadcastToClients(message)
  /\ sent' = Deliver(message)
  /\ UNCHANGED <<groupMembers, expenses, groupExpenseSplits, now, reqs,
                 notifications, groups, idVars, socketVars>>

(***************************************************************************)
(* Specifications.                                                         *)
(*   Spec        membership, POST /api/expenses, settlement and reads      *)
(*   SpecCustom  membership and POST /api/groups/expenses, one admitted    *)
(*               request (the others are turned away with 403)             *)
(*   SpecSplit   a group is formed, then one group expense of any amount   *)
(*               up to MaxSplitCents is posted and split                   *)
(*   SpecIds     calls of toNumericId on the ObjectIds of the database     *)
(*   SpecSockets listeners connect and close while messages are broadcast  *)
(*   SpecGroups  groups are created, joined and charged with expenses      *)
(*   SpecAmounts POST /api/expenses with every amount the schema accepts   *)
(*   SpecLive    POST /api/expenses and settlement with storage failures,  *)
(*               every started handler running on (weak fairness: the node *)
(*               event loop resumes a handler whose await has settled)     *)
(*   SpecMongo   MaxRead documents of the database (users, categories) are *)
(*               read and converted, then come storage calls of the Mongo  *)
(*               storage and the conversions of the documents they return  *)
(*   SpecRoutes  both expense routes, for personal and for group expenses: *)
(*               one POST /api/groups/expenses, or, once that was turned   *)
(*               away, POST /api/expenses requests                         *)
(***************************************************************************)
Next ==
  \/ \E u \in Users : AddGroupMember(TheGroup, u)
  \/ \E a \in Amounts, g \in {NoGroup, TheGroup} :
       PostExpense(CurrentUser, a, g)
  \/ \E r \in 1..Len(reqs) : ExpenseGetMembers(r)
  \/ \E r \in 1..Len(reqs) : ExpenseCreateSplit(r)
  \/ \E r \in 1..Len(reqs) : ExpenseSplitFails(r)
  \/ \E r \in 1..Len(reqs) : ExpenseFinish(r)
  \/ \E id \in 1..(Len(groupExpenseSplits) + 1), date \in 1..MaxTime :
       PatchSettle(id, date)
  \/ \E r \in 1..Len(reqs) : SettleRespond(r)
  \/ \E e \in 1..Len(expenses) : ReadExpense(e)

Spec == Init /\ [][Next]_vars

NextCustom ==
  \/ \E u \in Users : AddGroupMember(TheGroup, u)
  \/ \E a \in Amounts, it \in BOOLEAN :
       /\ \A r \in 1..Len(reqs) : reqs[r].status = 403
       /\ PostGroupExpense(CurrentUser, a, TheGroup, it)
  \/ \E r \in 1..Len(reqs) : GroupExpenseCreate(r)
  \/ \E r \in 1..Len(reqs) : GroupExpenseNoSplits(r)
  \/ \E r \in 1..Len(reqs), u \in Users, a \in 0..MaxCents :
       GroupExpenseCreateSplit(r, u, a)
  \/ \E r \in 1..Len(reqs) : GroupExpenseFinish(r)

SpecCustom == Init /\ [][NextCustom]_vars

NextSplit ==
  \/ \E u \in Users : expenses = <<>> /\ AddGroupMember(TheGroup, u)
  \/ \E a \in SplitAmounts :
       expenses = <<>> /\ PostExpense(CurrentUser, a, TheGroup)
  \/ \E r \in 1..Len(reqs) : ExpenseGetMembers(r)
  \/ \E r \in 1..Len(reqs) : ExpenseCreateSplit(r)
  \/ \E r \in 1..Len(reqs) : ExpenseFinish(r)

SpecSplit == Init /\ [][NextSplit]_vars

NextIds == \E objectId \in ObjectIds : ToNumericId(objectId)

SpecIds == Init /\ [][NextIds]_vars

NextSockets ==
  \/ \E ws \in Sockets : Connect(ws)
  \/ \E ws \in Sockets : StartClosing(ws)
  \/ \E ws \in Sockets : CloseEvent(ws)
  \/ \E message \in Events : Broadcast(message)

SpecSockets == Init /\ [][NextSockets]_vars

NextGroups ==
  \/ PostGroup
  \/ \E r \in 1..Len(reqs) : GroupAddCreator(r)
  \/ \E u \in Users : AddGroupMember(TheGroup, u)
  \/ \E a \in Amounts, g \in {NoGroup, TheGroup} :
       PostExpense(CurrentUser, a, g)
  \/ \E r \in 1..Len(reqs) : ExpenseGetMembers(r)
  \/ \E r \in 1..Len(reqs) : ExpenseCreateSplit(r)
  \/ \E r \in 1..Len(reqs) : ExpenseFinish(r)

SpecGroups == Init /\ [][NextGroups]_vars

NextAmounts ==
  \/ \E u \in Users : AddGroupMember(TheGroup, u)
  \/ \E a \in RequestAmounts, g \in {NoGroup, TheGroup} :
       PostExpense(CurrentUser, a, g)
  \/ PostExpenseUnparsed
  \/ \E r \in 1..Len(reqs) : ExpenseGetMembers(r)
  \/ \E r \in 1..Len(reqs) : ExpenseCreateSplit(r)
  \/ \E r \in 1..Len(reqs) : ExpenseFinish(r)

SpecAmounts == Init /\ [][NextAmounts]_vars

\* the next step of the handler of request r
HandlerStep(r) ==
  \/ ExpenseGetMembers(r)
  \/ ExpenseCreateSplit(r)
  \/ ExpenseSplitFails(r)
  \/ ExpenseFinish(r)
  \/ SettleRespond(r)

NextLive ==
  \/ \E u \in Users : AddGroupMember(TheGroup, u)
  \/ \E a \in Amounts, g \in {NoGroup, TheGroup} :
       PostExpense(CurrentUser, a, g)
  \/ \E id \in 1..(Len(groupExpenseSplits) + 1), date \in 1..MaxTime :
       PatchSettle(id, date)
  \/ \E id \in 1..(Len(groupExpenseSplits) + 1), caught \in BOOLEAN :
       PatchSettleFails(id, caught)
  \/ \E r \in 1..Len(reqs) : HandlerStep(r)

SpecLive ==
  /\ Init /\ [][NextLive]_vars
  /\ \A r \in 1..MaxReqs : WF_vars(r \in 1..Len(reqs) /\ HandlerStep(r))

NextMongo ==
  \/ \E objectId \in DocumentIds :
       /\ objectId \in ObjectIds => reqs = <<>> /\ objectId.hex <= MaxRead
       /\ ToNumericId(objectId)
  \/ \E u \in NumericIds, c \in NumericIds, g \in {NoGroup} \cup NumericIds :
       MongoCreateExpense(MaxCents, u, c, g)
  \/ \E e \in NumericIds : MongoGetGroupExpenseSplits(e)
  \/ \E e \in NumericIds, u \in NumericIds :
       MongoCreateGroupExpenseSplit(e, u, MaxCents)
  \/ \E id \in NumericIds, date \in 1..MaxTime :
       MongoSettleGroupExpenseSplit(id, date)

SpecMongo == Init /\ [][NextMongo]_vars

NextRoutes ==
  \/ \E u \in Users : AddGroupMember(TheGroup, u)
  \/ \E a \in Amounts, g \in {NoGroup, TheGroup} :
       /\ \A r \in 1..Len(reqs) :
            reqs[r].kind = "groupExpense" => reqs[r].status = 403
       /\ PostExpense(CurrentUser, a, g)
  \/ \E r \in 1..Len(reqs) : ExpenseGetMembers(r)
  \/ \E r \in 1..Len(reqs) : ExpenseCreateSplit(r)
  \/ \E r \in 1..Len(reqs) : ExpenseFinish(r)
  \/ \E a \in Amounts, g \in {NoGroup, TheGroup} :
       /\ reqs = <<>>
       /\ PostGroupExpense(CurrentUser, a, g, TRUE)
  \/ \E r \in 1..Len(reqs) : GroupExpenseCreate(r)
  \/ \E r \in 1..Len(reqs), u \in Users, a \in Amounts :
       GroupExpenseCreateSplit(r, u, a)
  \/ \E r \in 1..Len(reqs) : GroupExpenseFinish(r)

SpecRoutes == Init /\ [][NextRoutes]_vars

(***************************************************************************)
(* Vocabulary of the properties.                                           *)
(***************************************************************************)
Splits == 1..Len(groupExpenseSplits)
Requests == 1..Len(reqs)

RECURSIVE SumAmounts(_)
SumAmounts(rows) ==
  IF rows = {} THEN 0
  ELSE LET k == CHOOSE x \in rows : TRUE
       IN  groupExpenseSplits[k].amount + SumAmounts(rows \ {k})

RECURSIVE SumBody(_)
SumBody(body) ==
  IF body = <<>> THEN 0 ELSE body[1].amount + SumBody(Tail(body))

\* cents / n to the nearest cent, halves up
HalfUp(cents, n) == (2 * cents + n) \div (2 * n)

Abs(x) == IF x < 0 THEN 0 - x ELSE x

MemberUsers(members) == {members[j].userId : j \in 1..Len(members)}

\* request r answers 201 in this step, its splits all written
ExpenseSucceeds(r) ==
  /\ reqs[r].kind = "expense" /\ reqs[r].pc = "splitting"
  /\ reqs'[r].pc = "done" /\ reqs'[r].status = 201

SettlesOf(k) ==
  {r \in Requests : reqs[r].kind = "settle" /\ reqs[r].splitId = k}

(***************************************************************************)
(* C1  Settled is terminal: a split that is settled stays in the store and *)
(* stays settled in every later state.                                     *)
(***************************************************************************)
C1_SettledIsTerminal ==
  [][\A k \in Splits :
       groupExpenseSplits[k].settled =>
         /\ k <= Len(groupExpenseSplits')
         /\ groupExpenseSplits'[k].settled]_vars

\* a settled split that was settled a second time
C1_Witness ==
  \E k \in Splits :
    groupExpenseSplits[k].settled /\ Cardinality(SettlesOf(k)) >= 2

(***************************************************************************)
(* C2  Idempotent settlement: once a split is settled, no later settle     *)
(* call changes its settledAt.                                             *)
(***************************************************************************)
C2_SettledAtNeverChanges ==
  [][\A k \in Splits :
       groupExpenseSplits[k].settled =>
         groupExpenseSplits'[k].settledAt = groupExpenseSplits[k].settledAt]_vars

(***************************************************************************)
(* C3  At most one payment_settled message is broadcast for a split, how   *)
(* many settle requests it may receive.                                    *)
(***************************************************************************)
C3_OnePaymentSettledPerSplit ==
  \A k \in Splits :
    CopiesIn([type |-> "payment_settled", id |-> k], broadcasts) <= 1

(***************************************************************************)
(* C4  Equal-split sum: when POST /api/expenses has split an expense over  *)
(* a member set that contains the payer, the owed amounts plus the payer's *)
(* own share (amount / members, to the cent) add up to the amount.         *)
(***************************************************************************)
C4_SplitsSumToAmount ==
  [][\A r \in Requests :
       LET expense == expenses[reqs[r].expenseId]
           members == reqs[r].members
       IN  ( /\ ExpenseSucceeds(r)
             /\ Cardinality(MemberUsers(members)) = Len(members)
             /\ expense.userId \in MemberUsers(members) )
           => SumAmounts(GetGroupExpenseSplits(reqs[r].expenseId))
                + HalfUp(expense.amount, Len(members)) = expense.amount]_vars

(***************************************************************************)
(* C5  Atomic recording under failure: a group-expense request that fails  *)
(* after its expense row was written leaves neither the expense nor any of *)
(* its splits in the store.                                                *)
(***************************************************************************)
C5_FailureLeavesNothing ==
  \A r \in Requests :
    ( /\ reqs[r].kind \in {"expense", "groupExpense"}
      /\ reqs[r].pc = "done" /\ reqs[r].status = 500 )
    => /\ ~GetExpense(reqs[r].expenseId)
       /\ GetGroupExpenseSplits(reqs[r].expenseId) = {}

(***************************************************************************)
(* C6  Atomic visibility: a read that found an expense saw every split row *)
(* that the recording of the expense wrote.                                *)
(***************************************************************************)
C6_ReadsSeeAllOrNothing ==
  \A r \in Requests, w \in Requests :
    ( /\ reqs[r].kind = "read" /\ reqs[r].found
      /\ reqs[w].kind = "expense" /\ reqs[w].expenseId = reqs[r].expenseId
      /\ reqs[w].pc = "done" /\ reqs[w].status = 201 )
    => reqs[r].rows = GetGroupExpenseSplits(reqs[r].expenseId)

(***************************************************************************)
(* C7  Custom-split rejection: a POST /api/groups/expenses whose explicit  *)
(* amounts differ from the declared amount by more than one cent fails and *)
(* leaves no expense row and no split row.                                 *)
(***************************************************************************)
C7_MismatchIsRejected ==
  \A r \in Requests :
    ( /\ reqs[r].kind = "groupExpense" /\ reqs[r].iterable
      /\ reqs[r].pc = "done" /\ reqs[r].status # 403
      /\ Abs(SumBody(reqs[r].body) - reqs[r].amount) > 1 )
    => /\ reqs[r].status # 201
       /\ ~GetExpense(reqs[r].expenseId)
       /\ GetGroupExpenseSplits(reqs[r].expenseId) = {}

(***************************************************************************)
(* C8  No split is owed by the payer of its expense.                       *)
(***************************************************************************)
C8_PayerOwesNothing ==
  \A k \in Splits :
    groupExpenseSplits[k].userId #
      expenses[groupExpenseSplits[k].expenseId].userId

(***************************************************************************)
(* C9  No expense has two split rows with the same owing member.           *)
(***************************************************************************)
C9_OneSplitPerMember ==
  \A k1 \in Splits, k2 \in Splits :
    ( /\ k1 # k2
      /\ groupExpenseSplits[k1].expenseId = groupExpenseSplits[k2].expenseId )
    => groupExpenseSplits[k1].userId # groupExpenseSplits[k2].userId

(***************************************************************************)
(* C10  Equal split shape: POST /api/expenses writes exactly one row for   *)
(* every member other than the payer, none for the payer, and every row    *)
(* carries amount / member count rounded half-up to the cent.              *)
(***************************************************************************)
C10_EqualSplitShape ==
  [][\A r \in Requests :
       LET expense == expenses[reqs[r].expenseId]
           members == reqs[r].members
           rows    == GetGroupExpenseSplits(reqs[r].expenseId)
       IN  ExpenseSucceeds(r) =>
             /\ \A u \in Users :
                  Cardinality({k \in rows : groupExpenseSplits[k].userId = u})
                    = IF u # expense.userId /\ u \in MemberUsers(members)
                      THEN 1 ELSE 0
             /\ \A k \in rows :
                  groupExpenseSplits[k].amount
                    = HalfUp(expense.amount, Len(members))]_vars

(***************************************************************************)
(* C11  Empty owing set rejected: a group expense whose member snapshot    *)
(* holds no member other than the payer is never in the store and no       *)
(* expense_added message is broadcast for it.                              *)
(***************************************************************************)
C11_EmptyOwingSetRejected ==
  \A r \in Requests :
    ( /\ reqs[r].kind = "expense" /\ reqs[r].pc = "splitting"
      /\ NextOwing(reqs[r].members, 1,
                   expenses[reqs[r].expenseId].userId) > Len(reqs[r].members) )
    => /\ ~GetExpense(reqs[r].expenseId)
       /\ CopiesIn([type |-> "expense_added", id |-> reqs[r].expenseId],
                   broadcasts) = 0

(***************************************************************************)
(* C12  Both delivery paths fire: once expense_added is broadcast for an   *)
(* expense, every member owing on it has a notifications row for that      *)
(* expense; once payment_settled is broadcast for a split, a notifications *)
(* row for the split's expense is stored.  No route of routes.ts calls     *)
(* storage.createNotification, so `notifications` never leaves <<>>.       *)
(***************************************************************************)
C12_BothDeliveryPaths ==
  /\ \A e \in 1..Len(expenses) :
       CopiesIn([type |-> "expense_added", id |-> e], broadcasts) > 0
       => \A k \in GetGroupExpenseSplits(e) :
            \E n \in 1..Len(notifications) :
              /\ notifications[n].userId = groupExpenseSplits[k].userId
              /\ notifications[n].relatedExpenseId = e
  /\ \A k \in Splits :
       CopiesIn([type |-> "payment_settled", id |-> k], broadcasts) > 0
       => \E n \in 1..Len(notifications) :
            notifications[n].relatedExpenseId = groupExpenseSplits[k].expenseId

(***************************************************************************)
(* C13  Broadcast follows commit: the step that broadcasts expense_added   *)
(* for an expense starts from a store that holds the expense row and a     *)
(* split row for every owing member of the request's member snapshot; the  *)
(* step that broadcasts payment_settled for a split starts from a store    *)
(* that holds the split as settled; a request that answers 500 broadcasts  *)
(* nothing, in that step or ever.                                          *)
(***************************************************************************)
C13_BroadcastFollowsCommit ==
  [][/\ \A e \in 1..Len(expenses') :
          CopiesIn([type |-> "expense_added", id |-> e], broadcasts')
            > CopiesIn([type |-> "expense_added", id |-> e], broadcasts)
          => /\ GetExpense(e)
             /\ \E r \in Requests :
                  /\ reqs[r].kind = "expense" /\ reqs[r].expenseId = e
                  /\ \A j \in 1..Len(reqs[r].members) :
                       reqs[r].members[j].userId # expenses[e].userId
                       => \E k \in GetGroupExpenseSplits(e) :
                            groupExpenseSplits[k].userId
                              = reqs[r].members[j].userId
     /\ \A k \in 1..Len(groupExpenseSplits') :
          CopiesIn([type |-> "payment_settled", id |-> k], broadcasts')
            > CopiesIn([type |-> "payment_settled", id |-> k], broadcasts)
          => /\ k \in Splits
             /\ groupExpenseSplits[k].settled
             /\ groupExpenseSplits[k].settledAt # Null
     /\ \A r \in Requests :
          reqs'[r].kind = "expense" /\ reqs'[r].status = 500
          => /\ reqs[r].status # 500 => broadcasts' = broadcasts
             /\ CopiesIn([type |-> "expense_added",
                          id |-> reqs'[r].expenseId], broadcasts') = 0]_vars

\* expense_added went out for an expense with a split row, and
\* payment_settled went out for a split
C13_Witness ==
  /\ \E e \in 1..Len(expenses) :
       /\ CopiesIn([type |-> "expense_added", id |-> e], broadcasts) > 0
       /\ GetGroupExpenseSplits(e) # {}
  /\ \E k \in Splits :
       CopiesIn([type |-> "payment_settled", id |-> k], broadcasts) > 0

(***************************************************************************)
(* C14  Concurrent settlement, first committer wins: while a settle        *)
(* request that has stored its update of a split has not answered yet, no  *)
(* step of another request replaces the settledAt it stored.               *)
(***************************************************************************)
C14_FirstCommitterWins ==
  [][\A r \in Requests :
       ( /\ reqs[r].kind = "settle" /\ reqs[r].pc = "stored"
         /\ reqs[r].split # NoSplit )
       => groupExpenseSplits'[reqs[r].splitId].settledAt
            = reqs[r].split.settledAt]_vars

(***************************************************************************)
(* C15  Identity mapping bijection: the two maps are inverses of each      *)
(* other - toObjectId(toNumericId(k)) is k for every key seen,             *)
(* toNumericId(toObjectId(n)) is n for every number assigned - and no      *)
(* number is assigned to two keys.                                         *)
(***************************************************************************)
C15_MappingIsBijection ==
  /\ \A o \in ObjectIds :
       HexString(o) \in DOMAIN objectIdToNumber
       => ToObjectId(NumericIdOf(o)) = o
  /\ \A n \in DOMAIN numberToObjectId :
       /\ ToObjectId(n) # NullObjectId
       /\ HexString(ToObjectId(n)) \in DOMAIN objectIdToNumber
       /\ NumericIdOf(ToObjectId(n)) = n
  /\ \A k1 \in DOMAIN objectIdToNumber, k2 \in DOMAIN objectIdToNumber :
       k1 # k2 => objectIdToNumber[k1] # objectIdToNumber[k2]

\* two keys have been given numbers
C15_Witness ==
  /\ Cardinality(DOMAIN objectIdToNumber) >= 2
  /\ idCounter >= 3

(***************************************************************************)
(* C16  Only two event kinds: every message handed to broadcastToClients   *)
(* has type expense_added or payment_settled.                              *)
(***************************************************************************)
C16_OnlyTwoEventKinds ==
  \A message \in BagToSet(broadcasts) :
    message.type \in {"expense_added", "payment_settled"}

(***************************************************************************)
(* C17  Broadcast fan-out: a step that broadcasts a message hands it to    *)
(* every socket that is OPEN at that moment exactly once and to no other   *)
(* socket; no other step sends anything; a socket that is CLOSED is not in *)
(* the client set.                                                         *)
(***************************************************************************)
C17_BroadcastFanOut ==
  [][/\ \A message \in BagToSet(broadcasts') :
          CopiesIn(message, broadcasts') > CopiesIn(message, broadcasts)
          => \A ws \in Sockets :
               sent'[ws] = IF readyState[ws] = "OPEN"
                           THEN Append(sent[ws], message) ELSE sent[ws]
     /\ broadcasts' = broadcasts => sent' = sent
     /\ \A ws \in Sockets : readyState'[ws] = "CLOSED" => ws \notin clients']_vars

\* a listener got a message and closed, another got a later message too
C17_Witness ==
  \E ws1 \in Sockets, ws2 \in Sockets :
    /\ readyState[ws2] = "CLOSED" /\ Len(sent[ws2]) > 0
    /\ readyState[ws1] = "OPEN" /\ Len(sent[ws1]) > Len(sent[ws2])

(***************************************************************************)
(* C18  Settling a nonexistent split: a settle request whose id matches no *)
(* split row changes no split row when it reaches the storage, and its     *)
(* answer is 404, given without a broadcast and without a change to any    *)
(* split row.                                                              *)
(***************************************************************************)
C18_UnknownSplitIs404 ==
  [][/\ \A r \in 1..Len(reqs') :
          ( /\ r \notin Requests /\ reqs'[r].kind = "settle"
            /\ reqs'[r].splitId \notin Splits )
          => /\ groupExpenseSplits' = groupExpenseSplits
             /\ reqs'[r].split = NoSplit
     /\ \A r \in Requests :
          ( /\ reqs[r].kind = "settle" /\ reqs[r].split = NoSplit
            /\ reqs[r].pc = "stored" /\ reqs'[r].pc = "done" )
          => /\ reqs'[r].status = 404
             /\ broadcasts' = broadcasts
             /\ sent' = sent
             /\ groupExpenseSplits' = groupExpenseSplits]_vars

\* a settle request for an id without a split row has been answered
C18_Witness ==
  \E r \in Requests :
    /\ reqs[r].kind = "settle" /\ reqs[r].split = NoSplit
    /\ reqs[r].pc = "done" /\ reqs[r].status = 404
    /\ groupExpenseSplits # <<>>

(***************************************************************************)
(* C19  Reference errors precede writes: every stored expense that names a *)
(* group names a group that exists.                                        *)
(***************************************************************************)
C19_StoredExpenseNamesExistingGroup ==
  \A e \in 1..Len(expenses) :
    expenses[e].groupId # NoGroup => expenses[e].groupId \in groups

(***************************************************************************)
(* C20  Custom-split membership: every split row with a nonzero amount is  *)
(* owed by a member of the group of its expense.                           *)
(***************************************************************************)
C20_SplitsAreOwedByMembers ==
  \A k \in Splits :
    groupExpenseSplits[k].amount # 0
    => IsGroupMember(expenses[groupExpenseSplits[k].expenseId].groupId,
                     groupExpenseSplits[k].userId)

(***************************************************************************)
(* C21  InvalidAmount is rejected before persistence: no stored expense    *)
(* has an amount of zero or less, no split row belongs to such an expense  *)
(* and no expense_added is broadcast for one.                              *)
(***************************************************************************)
C21_NoNonPositiveAmountStored ==
  \A e \in 1..Len(expenses) :
    expenses[e].amount <= 0
    => /\ ~GetExpense(e)
       /\ GetGroupExpenseSplits(e) = {}
       /\ CopiesIn([type |-> "expense_added", id |-> e], broadcasts) = 0

C23_SettlementFrame ==
  [][/\ \A r \in 1..Len(reqs') :
          r \notin Requests /\ reqs'[r].kind = "settle"
          => /\ expenses' = expenses
             /\ Len(groupExpenseSplits') = Len(groupExpenseSplits)
             /\ \A k \in Splits :
                  /\ k # reqs'[r].splitId
                     => groupExpenseSplits'[k] = groupExpenseSplits[k]
                  /\ groupExpenseSplits'[k].expenseId
                       = groupExpenseSplits[k].expenseId
                  /\ groupExpenseSplits'[k].userId
                       = groupExpenseSplits[k].userId
                  /\ groupExpenseSplits'[k].amount
                       = groupExpenseSplits[k].amount
     /\ \A r \in Requests :
          ( /\ reqs[r].kind = "settle"
            /\ reqs[r].pc = "stored" /\ reqs'[r].pc = "done" )
          => /\ expenses' = expenses
             /\ groupExpenseSplits' = groupExpenseSplits]_vars

\* two settle requests for two different splits of one expense are in
\* flight at once
C23_Witness ==
  \E r1 \in Requests, r2 \in Requests :
    /\ reqs[r1].kind = "settle" /\ reqs[r1].pc = "stored"
    /\ reqs[r2].kind = "settle" /\ reqs[r2].pc = "stored"
    /\ reqs[r1].split # NoSplit /\ reqs[r2].split # NoSplit
    /\ reqs[r1].splitId # reqs[r2].splitId
    /\ groupExpenseSplits[reqs[r1].splitId].expenseId
         = groupExpenseSplits[reqs[r2].splitId].expenseId

(***************************************************************************)
(* C24  Stable id allocation: a call of toNumericId on a key not seen      *)
(* before returns the counter and advances it by one; a call on a key seen *)
(* before returns what the earlier calls returned and changes neither the  *)
(* counter nor a map; the numbers given out are 1, 2, 3, ... without a gap.*)
(***************************************************************************)
C24_StableIdAllocation ==
  [][Len(returned') = Len(returned) + 1
     => LET call == returned'[Len(returned')]
        IN  /\ IF call.key \notin DOMAIN objectIdToNumber
               THEN /\ call.id = idCounter
                    /\ idCounter' = idCounter + 1
               ELSE /\ call.id = objectIdToNumber[call.key]
                    /\ idCounter' = idCounter
                    /\ objectIdToNumber' = objectIdToNumber
                    /\ numberToObjectId' = numberToObjectId
            /\ \A j \in 1..Len(returned) :
                 returned[j].key = call.key => returned[j].id = call.id
            /\ {objectIdToNumber'[k] : k \in DOMAIN objectIdToNumber'}
                 = 1..(idCounter' - 1)]_vars

\* a key was converted twice, another key was given a number in between
C24_Witness ==
  \E i \in 1..Len(returned), j \in 1..Len(returned), m \in 1..Len(returned) :
    /\ i < m /\ m < j
    /\ returned[i].key = returned[j].key
    /\ returned[m].id > returned[i].id

(***************************************************************************)
(* C25  Unknown stable id is NotFound: toObjectId of a number that was     *)
(* never given out is null; a storage call that is handed such a number    *)
(* returns undefined, an empty list or an error, and the step in which it  *)
(* runs writes no document and changes neither the counter nor a map.      *)
(***************************************************************************)
C25_UnknownIdIsNotFound ==
  [][/\ \A n \in 1..(MaxKeys + MaxCalls + 1) :
          n >= idCounter => ToObjectId(n) = NullObjectId
     /\ \A r \in 1..Len(reqs') :
          ( /\ r \notin Requests
            /\ reqs'[r].kind = "storage" /\ reqs'[r].unknown )
          => /\ reqs'[r].result \in {"undefined", "empty", "Invalid IDs"}
             /\ expenses' = expenses
             /\ groupExpenseSplits' = groupExpenseSplits
             /\ UNCHANGED <<idCounter, objectIdToNumber, numberToObjectId>>]_vars

(***************************************************************************)
(* C26  Every request terminates: every request the server has received is *)
(* eventually answered.                                                    *)
(***************************************************************************)
C26_EveryRequestIsAnswered ==
  \A r \in 1..MaxReqs :
    (r \in Requests) ~> (r \in Requests /\ reqs[r].pc = "done")

(***************************************************************************)
(* C27  Split ordering: of two split rows of one expense, the one written  *)
(* first is owed by the member with the smaller (or the same) user id.     *)
(***************************************************************************)
C27_SplitsInMemberIdOrder ==
  \A k1 \in Splits, k2 \in Splits :
    ( /\ k1 < k2
      /\ groupExpenseSplits[k1].expenseId = groupExpenseSplits[k2].expenseId )
    => groupExpenseSplits[k1].userId <= groupExpenseSplits[k2].userId

(***************************************************************************)
(* C28  Settled flag and timestamp agree: a split row has a null settledAt *)
(* exactly when its settled flag is false.                                 *)
(***************************************************************************)
C28_SettledIffSettledAt ==
  \A k \in Splits :
    groupExpenseSplits[k].settledAt = Null <=> ~groupExpenseSplits[k].settled

\* one split of an expense is settled, another one is not
C28_Witness ==
  \E k1 \in Splits, k2 \in Splits :
    /\ groupExpenseSplits[k1].settled
    /\ groupExpenseSplits[k1].settledAt # Null
    /\ ~groupExpenseSplits[k2].settled

(***************************************************************************)
(* C29  Owed total never exceeds the expense: when POST /api/expenses has  *)
(* split a group expense over a member list without repeated users, the    *)
(* amounts of its split rows add up to at most the amount of the expense.  *)
(***************************************************************************)
C29_OwedTotalWithinAmount ==
  [][\A r \in Requests :
       ( /\ ExpenseSucceeds(r)
         /\ Cardinality(MemberUsers(reqs[r].members)) = Len(reqs[r].members) )
       => SumAmounts(GetGroupExpenseSplits(reqs[r].expenseId))
            <= expenses[reqs[r].expenseId].amount]_vars

(***************************************************************************)
(* C30  Membership snapshot: when POST /api/expenses answers 201 for a     *)
(* group expense, its split rows are one per non-payer entry of the member *)
(* list the request read before the loop, each with the amount divided by  *)
(* the length of that list, whatever was added to the group meanwhile.     *)
(***************************************************************************)
C30_SplitsFollowSnapshot ==
  [][\A r \in Requests :
       LET expense == expenses[reqs[r].expenseId]
           members == reqs[r].members
           rows    == GetGroupExpenseSplits(reqs[r].expenseId)
           owing   == {j \in 1..Len(members) :
                         members[j].userId # expense.userId}
       IN  ExpenseSucceeds(r) =>
             /\ \A u \in Users :
                  Cardinality({k \in rows : groupExpenseSplits[k].userId = u})
                    = Cardinality({j \in owing : members[j].userId = u})
             /\ \A k \in rows :
                  groupExpenseSplits[k].amount
                    = SplitAmount(expense.amount, Len(members))]_vars

\* a member joined the group after a request had read the members and
\* written a split, and before it wrote its last one
C30_Witness ==
  \E r \in Requests :
    /\ reqs[r].kind = "expense" /\ reqs[r].pc = "splitting"
    /\ GetGroupExpenseSplits(reqs[r].expenseId) # {}
    /\ NextOwing(reqs[r].members, reqs[r].i,
                 expenses[reqs[r].expenseId].userId) <= Len(reqs[r].members)
    /\ Len(GetGroupMembers(TheGroup)) > Len(reqs[r].members)

====
